---- MODULE Spec2Model ----
(***************************************************************************)
(* Pairwise squared Euclidean distance matrix, as computed by the NumPy    *)
(* and CuPy teaching notebooks: euclidean_broadcast, euclidean_trick,      *)
(* euclidean_np, euclidean_cp and the backend-agnostic euclidean.          *)
(*                                                                         *)
(* An array is a record [mod, a]: the library it belongs to and its cells, *)
(* a sequence of rows, each row a sequence of numbers. Cell values are     *)
(* integers: on integer-valued inputs of this size IEEE double arithmetic  *)
(* is exact, so the model computes exactly what the routines return there. *)
(* Rounding on non-integral inputs is outside the model.                   *)
(***************************************************************************)
EXTENDS Integers, Sequences, FiniteSets

\* ---- bounds of the model ------------------------------------------------
\* an input array has at most MaxCells cells (rows times columns)
MaxCells == 3
\* an input array of the CuPy notebook has at most MaxCupyCells cells
MaxCupyCells == 2
\* cell values range over -1..MaxVal
MaxVal == 1

Vals == (0 - 1)..MaxVal

\* every n x m table of values with n * m <= c
TablesUpTo(c) ==
  UNION {UNION {[1..n -> [1..m -> Vals]] : m \in 1..(c \div n)} : n \in 1..c}

Generated == TablesUpTo(MaxCells)

\* the tables of the two worked scenarios
ScenarioA == <<(<<0, 0>>), (<<3, 4>>)>>
ScenarioX == <<(<<1, 2, 3>>)>>
ScenarioY == <<(<<4, 5, 6>>)>>

Tables == Generated \cup {ScenarioA, ScenarioX, ScenarioY}

\* the tables of the CuPy notebook
CupyTables == TablesUpTo(MaxCupyCells) \cup {ScenarioA, ScenarioX, ScenarioY}

\* the 1 x 1 tables and the scenario tables: the inputs of call sequences
SeqTables == {<<(<<v>>)>> : v \in Vals} \cup {ScenarioA, ScenarioX, ScenarioY}

Modules == {"numpy", "cupy"}

\* np.random.random([nsamples, nfeat]) and cp.asarray: an array of a library
Array(mod, t) == [mod |-> mod, a |-> t]

\* ---- array primitives (the same in numpy and cupy) ----------------------
NRows(a) == Len(a)
NCols(a) == Len(a[1])

RECURSIVE SumSeqDropLast(_)
\* a plausible slip: the reduction stops one element short
SumSeqDropLast(s) ==
  IF Len(s) <= 1 THEN 0 ELSE s[1] + SumSeqDropLast(Tail(s))

RECURSIVE SumSeq(_)
\* the sum of a 1-D sequence, as ndarray.sum and np.dot accumulate it
SumSeq(s) == IF s = <<>> THEN 0 ELSE s[1] + SumSeq(Tail(s))

\* np.abs / cp.abs on one cell
Abs(v) == IF v < 0 THEN 0 - v ELSE v

\* y.T
Transpose(a) == [k \in 1..NCols(a) |-> [j \in 1..NRows(a) |-> a[j][k]]]

\* x * x : element-wise product of two tables of the same shape
Mul(a, b) == [i \in 1..NRows(a) |-> [k \in 1..NCols(a) |-> a[i][k] * b[i][k]]]

\* a plausible slip: the reduction runs over axis 0 instead of axis 1
SumAxis0(a) == [k \in 1..NCols(a) |-> SumSeq([i \in 1..NRows(a) |-> a[i][k]])]

\* (...).sum(axis=1)
SumAxis1(a) == [i \in 1..NRows(a) |-> SumSeq(a[i])]

RECURSIVE EinsumRowSkipFirst(_, _, _)
\* a plausible slip: the accumulation stops one product short
EinsumRowSkipFirst(ra, rb, j) ==
  IF j <= 1 THEN 0 ELSE EinsumRowSkipFirst(ra, rb, j - 1) + ra[j] * rb[j]

RECURSIVE EinsumRow(_, _, _)
\* the 'ij,ij->i' contraction of one row: accumulate ra[j] * rb[j] over j
EinsumRow(ra, rb, j) ==
  IF j = 0 THEN 0 ELSE EinsumRow(ra, rb, j - 1) + ra[j] * rb[j]

\* np.einsum('ij,ij->i', a, b)
Einsum_ij_ij_i(a, b) == [i \in 1..NRows(a) |-> EinsumRow(a[i], b[i], NCols(a))]

\* the broadcast length of one axis; 0 when the two lengths are incompatible
BroadcastDim(p, q) ==
  IF p = q THEN p ELSE IF p = 1 THEN q ELSE IF q = 1 THEN p ELSE 0

\* the index into an axis of length p that is broadcast along k
BIdx(p, k) == IF p = 1 THEN 1 ELSE k

\* ---- what a call gives back ---------------------------------------------
NoResult == [kind |-> "none"]
ValueError == [kind |-> "ValueError"]
AssertionError == [kind |-> "AssertionError"]
Ok(mod, m) == [kind |-> "ok", mod |-> mod, mat |-> m]

\* np.dot(a, b) / cp.dot(a, b) for a of shape (N, M) and b of shape (M2, N2)
Dot(mod, a, b) ==
  IF NCols(a) # NRows(b) THEN ValueError
  ELSE Ok(mod, [i \in 1..NRows(a) |-> [j \in 1..NCols(b) |->
                  SumSeq([k \in 1..NCols(a) |-> a[i][k] * b[k][j]])]])

\* a plausible slip: the factor 2 of the cross term is lost
CombineNoFactor(x2, y2, xy) ==
  IF xy.kind # "ok" THEN xy
  ELSE Ok(xy.mod, [i \in 1..Len(x2) |-> [j \in 1..Len(y2) |->
                     Abs(x2[i] + y2[j] - xy.mat[i][j])]])

\* a plausible slip: the cross term is added instead of subtracted
CombinePlus(x2, y2, xy) ==
  IF xy.kind # "ok" THEN xy
  ELSE Ok(xy.mod, [i \in 1..Len(x2) |-> [j \in 1..Len(y2) |->
                     Abs(x2[i] + y2[j] + 2 * xy.mat[i][j])]])

\* a plausible slip: x2 is typed where y2 is meant, abs(x2 + x2 - 2. * xy)
CombineX2Twice(x2, y2, xy) ==
  IF xy.kind # "ok" THEN xy
  ELSE Ok(xy.mod, [i \in 1..Len(x2) |-> [j \in 1..Len(y2) |->
                     Abs(x2[i] + x2[i] - 2 * xy.mat[i][j])]])

\* abs(x2 + y2 - 2. * xy), x2 of shape (N, 1) and y2 of shape (1, N2)
Combine(x2, y2, xy) ==
  IF xy.kind # "ok" THEN xy
  ELSE Ok(xy.mod, [i \in 1..Len(x2) |-> [j \in 1..Len(y2) |->
                     Abs(x2[i] + y2[j] - 2 * xy.mat[i][j])]])

\* ---- the routines -------------------------------------------------------
\* a plausible slip: the differences are summed without being squared
euclidean_broadcast_nosquare(x, y) ==
  LET M == BroadcastDim(NCols(x.a), NCols(y.a))
  IN IF M = 0 THEN ValueError
     ELSE Ok(x.mod, [i \in 1..NRows(x.a) |-> [j \in 1..NRows(y.a) |->
                SumSeq([k \in 1..M |->
                  x.a[i][BIdx(NCols(x.a), k)] - y.a[j][BIdx(NCols(y.a), k)]])]])

euclidean_broadcast(x, y) ==
  LET M == BroadcastDim(NCols(x.a), NCols(y.a))
      \* diff = x[:, np.newaxis, :] - y[np.newaxis, :, :]
      diff == [i \in 1..NRows(x.a) |-> [j \in 1..NRows(y.a) |-> [k \in 1..M |->
                 x.a[i][BIdx(NCols(x.a), k)] - y.a[j][BIdx(NCols(y.a), k)]]]]
  IN IF M = 0 THEN ValueError
     \* (diff * diff).sum(axis=2)
     ELSE Ok(x.mod, [i \in 1..NRows(x.a) |-> [j \in 1..NRows(y.a) |->
                SumSeq([k \in 1..M |-> diff[i][j][k] * diff[i][j][k]])]])

euclidean_trick(x, y) ==
  LET x2 == Einsum_ij_ij_i(x.a, x.a)
      y2 == Einsum_ij_ij_i(y.a, y.a)
      xy == Dot(x.mod, x.a, Transpose(y.a))
  IN Combine(x2, y2, xy)

euclidean_np(x, y) ==
  LET x2 == SumAxis1(Mul(x.a, x.a))
      y2 == SumAxis1(Mul(y.a, y.a))
      xy == Dot("numpy", x.a, Transpose(y.a))
  IN Combine(x2, y2, xy)

euclidean_cp(x, y) ==
  LET x2 == SumAxis1(Mul(x.a, x.a))
      y2 == SumAxis1(Mul(y.a, y.a))
      xy == Dot("cupy", x.a, Transpose(y.a))
  IN Combine(x2, y2, xy)

\* cp.get_array_module: cupy for a cupy array, numpy for anything else
get_array_module(x) == IF x.mod = "cupy" THEN "cupy" ELSE "numpy"

\* a plausible slip: the check that x and y are of the same kind is missing
euclidean_noassert(x, y) ==
  LET xp == get_array_module(x)
      x2 == SumAxis1(Mul(x.a, x.a))
      y2 == SumAxis1(Mul(y.a, y.a))
      xy == Dot(xp, x.a, Transpose(y.a))
  IN Combine(x2, y2, xy)

euclidean(x, y) ==
  LET xp == get_array_module(x)
      x2 == SumAxis1(Mul(x.a, x.a))
      y2 == SumAxis1(Mul(y.a, y.a))
      xy == Dot(xp, x.a, Transpose(y.a))
  IN IF xp # get_array_module(y) THEN AssertionError
     ELSE Combine(x2, y2, xy)

\* ---- state ----------------------------------------------------------------
\* x, y : the caller's two arrays
\* fn   : the routine called last ("none" before the first call)
\* out  : what that call gave back
\* edm  : a result the caller keeps, with the call that produced it
VARIABLES x, y, fn, out, edm
vars == <<x, y, fn, out, edm>>

NumpyArrays == {Array("numpy", t) : t \in Tables}
AllArrays == {Array(m, t) : m \in Modules, t \in CupyTables}
SeqArrays == {Array("numpy", t) : t \in SeqTables}

\* the kept result learns whether a call with other arguments came after it
Noted(f) ==
  IF edm.kind = "none" \/ (edm.fn = f /\ edm.x = x /\ edm.y = y) THEN edm
  ELSE [edm EXCEPT !.others = TRUE]

Init ==
  /\ x \in NumpyArrays
  /\ y \in NumpyArrays
  /\ fn = "none"
  /\ out = NoResult
  /\ edm = NoResult

\* a plausible slip: the subtraction is done in place, x -= y
CallBroadcastInPlace ==
  /\ fn' = "euclidean_broadcast"
  /\ out' = euclidean_broadcast(x, y)
  /\ edm' = Noted("euclidean_broadcast")
  /\ x' = IF NRows(x.a) = NRows(y.a) /\ NCols(x.a) = NCols(y.a)
          THEN [x EXCEPT !.a = [i \in 1..NRows(x.a) |-> [k \in 1..NCols(x.a) |->
                                   x.a[i][k] - y.a[i][k]]]]
          ELSE x
  /\ y' = y

CallBroadcast ==
  /\ fn' = "euclidean_broadcast"
  /\ out' = euclidean_broadcast(x, y)
  /\ edm' = Noted("euclidean_broadcast")
  /\ UNCHANGED <<x, y>>

CallTrick ==
  /\ fn' = "euclidean_trick"
  /\ out' = euclidean_trick(x, y)
  /\ edm' = Noted("euclidean_trick")
  /\ UNCHANGED <<x, y>>

Next == CallBroadcast \/ CallTrick

Spec == Init /\ [][Next]_vars

\* ---- the CuPy notebook ----------------------------------------------------
InitCupy ==
  /\ x \in AllArrays
  /\ y \in AllArrays
  /\ fn = "none"
  /\ out = NoResult
  /\ edm = NoResult

\* euclidean_np(x_np, x_np): called on numpy arrays
CallNp ==
  /\ x.mod = "numpy" /\ y.mod = "numpy"
  /\ fn' = "euclidean_np"
  /\ out' = euclidean_np(x, y)
  /\ edm' = Noted("euclidean_np")
  /\ UNCHANGED <<x, y>>

\* euclidean_cp(x_cp, x_cp): called on cupy arrays
CallCp ==
  /\ x.mod = "cupy" /\ y.mod = "cupy"
  /\ fn' = "euclidean_cp"
  /\ out' = euclidean_cp(x, y)
  /\ edm' = Noted("euclidean_cp")
  /\ UNCHANGED <<x, y>>

CallEuclidean ==
  /\ fn' = "euclidean"
  /\ out' = euclidean(x, y)
  /\ edm' = Noted("euclidean")
  /\ UNCHANGED <<x, y>>

NextCupy == CallNp \/ CallCp \/ CallEuclidean

SpecCupy == InitCupy /\ [][NextCupy]_vars

\* ---- sequences of calls ---------------------------------------------------
InitSeq ==
  /\ x \in SeqArrays
  /\ y \in SeqArrays
  /\ fn = "none"
  /\ out = NoResult
  /\ edm = NoResult

\* x = ... : the caller binds x to a new array; no call was made on it yet
NewX ==
  /\ x' \in SeqArrays
  /\ fn' = "none"
  /\ out' = NoResult
  /\ UNCHANGED <<y, edm>>

\* the caller binds y to a new array; no call was made on it yet
NewY ==
  /\ y' \in SeqArrays
  /\ fn' = "none"
  /\ out' = NoResult
  /\ UNCHANGED <<x, edm>>

\* edm = f(x, y) : the caller keeps the result of the call just made
Keep ==
  /\ fn # "none"
  /\ edm' = [kind |-> "kept", fn |-> fn, x |-> x, y |-> y, out |-> out,
             others |-> FALSE]
  /\ UNCHANGED <<x, y, fn, out>>

NextSeq == CallBroadcast \/ CallTrick \/ NewX \/ NewY \/ Keep

SpecSeq == InitSeq /\ [][NextSeq]_vars

\* ---- properties -----------------------------------------------------------
SameWidth == NCols(x.a) = NCols(y.a)
Called == fn # "none"
Rows(a) == 1..NRows(a)

\* squared norm, dot product and squared Euclidean distance of two rows
SqNorm(r) == SumSeq([k \in 1..Len(r) |-> r[k] * r[k]])
DotRows(r, s) == SumSeq([k \in 1..Len(r) |-> r[k] * s[k]])
SqDist(r, s) == SumSeq([k \in 1..Len(r) |-> (r[k] - s[k]) * (r[k] - s[k])])

\* out is an N x N2 matrix
HasShape(o, n, n2) ==
  /\ o.kind = "ok"
  /\ Len(o.mat) = n
  /\ \A i \in 1..n : Len(o.mat[i]) = n2

\* C1: on equal-width batches euclidean_trick returns an N x N2 matrix whose
\* entry (i, j) is |x_i.x_i + y_j.y_j - 2 x_i.y_j|, and that value is the
\* squared Euclidean distance between row i of x and row j of y.
C1_TrickIsSquaredDistance ==
  (fn = "euclidean_trick" /\ SameWidth) =>
    /\ HasShape(out, NRows(x.a), NRows(y.a))
    /\ \A i \in Rows(x.a), j \in Rows(y.a) :
         /\ out.mat[i][j] =
              Abs(SqNorm(x.a[i]) + SqNorm(y.a[j]) - 2 * DotRows(x.a[i], y.a[j]))
         /\ out.mat[i][j] = SqDist(x.a[i], y.a[j])

C1_Witness ==
  /\ fn = "euclidean_trick" /\ SameWidth
  /\ NRows(x.a) # NRows(y.a) /\ NCols(x.a) >= 2
  /\ out.kind = "ok"
  /\ \E i \in Rows(x.a), j \in Rows(y.a) : out.mat[i][j] > 1

\* C2: on equal-width batches the direct-difference and the
\* algebraic-expansion routine return the same matrix: whichever of the two
\* was called, its result is the one the other gives on the same arguments.
C2_StrategiesAgree ==
  (Called /\ SameWidth) =>
    /\ out.kind = "ok"
    /\ fn = "euclidean_broadcast" => out = euclidean_trick(x, y)
    /\ fn = "euclidean_trick" => out = euclidean_broadcast(x, y)

C2_Witness ==
  /\ fn = "euclidean_broadcast" /\ SameWidth /\ NCols(x.a) >= 2
  /\ x # y
  /\ out.kind = "ok"
  /\ \E i \in Rows(x.a), j \in Rows(y.a) : out.mat[i][j] > 0

\* C3: on equal-width batches, negative cells included, every entry of the
\* matrix either routine returns is non-negative.
C3_NonNegative ==
  (Called /\ SameWidth) =>
    /\ out.kind = "ok"
    /\ \A i \in 1..Len(out.mat) : \A j \in 1..Len(out.mat[i]) : out.mat[i][j] >= 0

C3_Witness ==
  /\ Called /\ SameWidth /\ out.kind = "ok"
  /\ \E i \in Rows(x.a), k \in 1..NCols(x.a) : x.a[i][k] < 0
  /\ \E j \in Rows(y.a), k \in 1..NCols(y.a) : y.a[j][k] > 0
  /\ \E i \in Rows(x.a), j \in Rows(y.a) : out.mat[i][j] > 0

\* C4: compute(x, x) is a square matrix, symmetric and with a zero diagonal.
C4_SelfSymmetricZeroDiagonal ==
  (Called /\ x = y) =>
    /\ HasShape(out, NRows(x.a), NRows(x.a))
    /\ \A i \in Rows(x.a), j \in Rows(x.a) : out.mat[i][j] = out.mat[j][i]
    /\ \A i \in Rows(x.a) : out.mat[i][i] = 0

C4_Witness ==
  /\ Called /\ x = y /\ NRows(x.a) >= 2
  /\ out.kind = "ok"
  /\ out.mat[1][2] > 0

\* the routine called last, applied to the arguments ax and ay
Apply(f, ax, ay) ==
  IF f = "euclidean_broadcast" THEN euclidean_broadcast(ax, ay)
  ELSE IF f = "euclidean_trick" THEN euclidean_trick(ax, ay)
  ELSE IF f = "euclidean_np" THEN euclidean_np(ax, ay)
  ELSE IF f = "euclidean_cp" THEN euclidean_cp(ax, ay)
  ELSE euclidean(ax, ay)

\* C5: on equal-width batches, swapping the arguments transposes the result:
\* compute(y, x) has N2 rows and N columns and compute(x, y)[i][j] equals
\* compute(y, x)[j][i].
C5_SwapTransposes ==
  (Called /\ SameWidth) =>
    LET swapped == Apply(fn, y, x)
    IN /\ out.kind = "ok"
       /\ HasShape(swapped, NRows(y.a), NRows(x.a))
       /\ \A i \in Rows(x.a), j \in Rows(y.a) : out.mat[i][j] = swapped.mat[j][i]

C5_Witness ==
  /\ Called /\ SameWidth /\ NRows(x.a) # NRows(y.a)
  /\ out.kind = "ok"
  /\ \E i \in Rows(x.a), j \in Rows(y.a) : out.mat[i][j] > 0
  /\ \E i \in Rows(x.a), j \in Rows(x.a) : x.a[i] # x.a[j]

\* C6: whenever the two batches differ in width, the call fails with a shape
\* error and returns no matrix, for both routines.
C6_WidthMismatchFails ==
  (Called /\ ~SameWidth) => out.kind = "ValueError"

\* the part of C6 the code does keep: euclidean_trick always fails on
\* differing widths, euclidean_broadcast when neither width is 1
C6_MismatchFailsUnlessBroadcastable ==
  (Called /\ ~SameWidth) =>
    /\ fn = "euclidean_trick" => out.kind = "ValueError"
    /\ (fn = "euclidean_broadcast" /\ NCols(x.a) # 1 /\ NCols(y.a) # 1)
         => out.kind = "ValueError"

\* a step in which a routine returns
IsCallStep == fn' # "none" /\ (fn' # fn \/ out' # out \/ x' # x \/ y' # y)

\* C7: a call leaves both input arrays as they were, and a call with the
\* arguments of a kept earlier call returns the matrix that call returned,
\* whatever calls were made in between.
C7_PureAndStateless ==
  /\ [][IsCallStep => (x' = x /\ y' = y)]_vars
  /\ []((edm.kind = "kept" /\ fn = edm.fn /\ x = edm.x /\ y = edm.y)
          => out = edm.out)

C7_Witness ==
  /\ edm.kind = "kept" /\ edm.others
  /\ fn = edm.fn /\ x = edm.x /\ y = edm.y
  /\ out = edm.out /\ out.kind = "ok"
  /\ x.a = ScenarioX /\ y.a = ScenarioY

\* C8: under both routines compute(x, x) for x = [[0,0],[3,4]] is
\* [[0,25],[25,0]] and compute([[1,2,3]], [[4,5,6]]) is [[27]].
C8_Scenarios ==
  Called =>
    /\ (x.a = ScenarioA /\ y.a = ScenarioA)
         => (out.kind = "ok" /\ out.mat = <<(<<0, 25>>), (<<25, 0>>)>>)
    /\ (x.a = ScenarioX /\ y.a = ScenarioY)
         => (out.kind = "ok" /\ out.mat = <<(<<27>>)>>)

C8_Witness ==
  /\ fn = "euclidean_trick" /\ x.a = ScenarioA /\ y.a = ScenarioA
  /\ out.kind = "ok" /\ out.mat[1][2] = 25

\* C9: the row squared norms from einsum('ij,ij->i', x, x) equal those from
\* (x*x).sum(axis=1), and on equal-width batches of its own library each of
\* euclidean_np, euclidean_cp and euclidean returns the entries that
\* euclidean_trick returns (so all four agree entry by entry).
C9_ExpansionsAgree ==
  /\ Einsum_ij_ij_i(x.a, x.a) = SumAxis1(Mul(x.a, x.a))
  /\ Einsum_ij_ij_i(y.a, y.a) = SumAxis1(Mul(y.a, y.a))
  /\ (Called /\ SameWidth /\ x.mod = y.mod) =>
       /\ out.kind = "ok"
       /\ out.mat = euclidean_trick(x, y).mat

C9_Witness ==
  /\ fn = "euclidean_cp" /\ SameWidth /\ NCols(x.a) >= 2
  /\ out.kind = "ok"
  /\ \E i \in Rows(x.a), j \in Rows(y.a) : out.mat[i][j] > 1

C11_ZeroIffEqualRows ==
  (Called /\ SameWidth) =>
    /\ out.kind = "ok"
    /\ \A i \in Rows(x.a), j \in Rows(y.a) :
         (out.mat[i][j] = 0) <=> (x.a[i] = y.a[j])

C11_Witness ==
  /\ fn = "euclidean_trick" /\ SameWidth /\ NCols(x.a) >= 2
  /\ out.kind = "ok"
  /\ \E i \in Rows(x.a), j \in Rows(y.a) : x.a[i] = y.a[j] /\ out.mat[i][j] = 0
  /\ \E i \in Rows(x.a), j \in Rows(y.a) : x.a[i] # y.a[j] /\ out.mat[i][j] > 0
====
